---- MODULE Spec2Model ----
(***************************************************************************)
(* Model of pass.py: a password store kept in one SQLite table and the     *)
(* query dispatcher (main) that turns one raw query string into one        *)
(* action against it.                                                      *)
(*                                                                         *)
(* Text is modelled as a sequence of characters, each character a          *)
(* one-element string; a character outside ASCII is written by its code    *)
(* point ("U+2705" is the check mark).  The empty string is <<>>.          *)
(***************************************************************************)
EXTENDS Integers, Sequences, FiniteSets, TLC

(***************************************************************************)
(* Bounds of the exploration.                                              *)
(***************************************************************************)
\* time.time() is read as a whole number of seconds in 0..MaxTime
MaxTime == 1
\* the pseudo-random draws of generate_password come from MaxSeed+1 streams
MaxSeed == 1
\* position of an injected storage fault: 0 none, 1 init_db, k+1 the k-th
\* store call of the action
MaxFaultAt == 3

(***************************************************************************)
(* Characters and strings (Python str methods used by the program).        *)
(***************************************************************************)
ascii_lowercase ==
  <<"a","b","c","d","e","f","g","h","i","j","k","l","m",
    "n","o","p","q","r","s","t","u","v","w","x","y","z">>

ascii_uppercase ==
  <<"A","B","C","D","E","F","G","H","I","J","K","L","M",
    "N","O","P","Q","R","S","T","U","V","W","X","Y","Z">>

digits == <<"0","1","2","3","4","5","6","7","8","9">>

Range(s) == { s[i] : i \in 1..Len(s) }

IndexOf(s, c) == CHOOSE i \in 1..Len(s) : s[i] = c

\* str.isspace / the separators of str.split() and str.strip()
Whitespace == {" ", "\t"}

\* characters for which str.isdigit() is true: the decimal digits and the
\* superscript two, which is a digit without being a decimal
DigitChars == Range(digits) \cup {"U+00B2"}

lower_char(c) ==
  IF c \in Range(ascii_uppercase)
  THEN ascii_lowercase[IndexOf(ascii_uppercase, c)]
  ELSE c

lower(s) == [i \in 1..Len(s) |-> lower_char(s[i])]

isdigit(s) == Len(s) > 0 /\ \A i \in 1..Len(s) : s[i] \in DigitChars

isspace(s) == Len(s) > 0 /\ \A i \in 1..Len(s) : s[i] \in Whitespace

RECURSIVE lstrip(_)
lstrip(s) ==
  IF s # <<>> /\ Head(s) \in Whitespace THEN lstrip(Tail(s)) ELSE s

RECURSIVE rstrip(_)
rstrip(s) ==
  IF s # <<>> /\ s[Len(s)] \in Whitespace
  THEN rstrip(SubSeq(s, 1, Len(s) - 1))
  ELSE s

strip(s) == rstrip(lstrip(s))

\* str.split() with no separator: the maximal runs of non-whitespace
RECURSIVE split_from(_, _, _)
split_from(s, cur, acc) ==
  IF s = <<>>
  THEN IF cur = <<>> THEN acc ELSE Append(acc, cur)
  ELSE IF Head(s) \in Whitespace
       THEN split_from(Tail(s), <<>>,
                       IF cur = <<>> THEN acc ELSE Append(acc, cur))
       ELSE split_from(Tail(s), Append(cur, Head(s)), acc)

split(s) == split_from(s, <<>>, <<>>)

\* ' '.join(tokens)
RECURSIVE join(_)
join(tokens) ==
  IF tokens = <<>> THEN <<>>
  ELSE IF Len(tokens) = 1 THEN tokens[1]
  ELSE tokens[1] \o <<" ">> \o join(Tail(tokens))

startswith(s, p) == Len(p) <= Len(s) /\ SubSeq(s, 1, Len(p)) = p

\* sub in s
contains(s, sub) ==
  \E i \in 0..(Len(s) - Len(sub)) : SubSeq(s, i + 1, i + Len(sub)) = sub

\* int(s) succeeds on decimal digits only
int_ok(s) == Len(s) > 0 /\ \A i \in 1..Len(s) : s[i] \in Range(digits)

RECURSIVE int(_)
int(s) ==
  IF s = <<>> THEN 0
  ELSE 10 * int(SubSeq(s, 1, Len(s) - 1)) + (IndexOf(digits, s[Len(s)]) - 1)

RECURSIVE str(_)
str(n) ==
  IF n < 10 THEN <<digits[n + 1]>>
  ELSE str(n \div 10) \o <<digits[(n % 10) + 1]>>

(***************************************************************************)
(* The passwords table.  A row is [name, password, created_at]; the id     *)
(* column is assigned by SQLite and read by no statement of the program.   *)
(***************************************************************************)
None == [some |-> FALSE, val |-> <<>>]

Some(v) == [some |-> TRUE, val |-> v]

\* the truth value Python gives a fetched password
truthy(p) == p.some /\ p.val # <<>>

Row(name, password, t) == [name |-> name, password |-> password, created_at |-> t]

\* INSERT OR IGNORE in place of INSERT OR REPLACE: an existing row is kept
save_password_keeps_old(tbl, name, password, t) ==
  IF \E r \in tbl : r.name = name THEN tbl
  ELSE tbl \cup {Row(name, password, t)}

\* a plain INSERT into a table without the UNIQUE constraint
save_password_duplicates(tbl, name, password, t) ==
  tbl \cup {Row(name, password, t)}

\* INSERT OR REPLACE under UNIQUE(name): the row holding the name is removed
\* and the new row inserted
save_password(tbl, name, password, t) ==
  {r \in tbl : r.name # name} \cup {Row(name, password, t)}

get_password(tbl, name) ==
  IF \E r \in tbl : r.name = name
  THEN Some((CHOOSE r \in tbl : r.name = name).password)
  ELSE None

created_at(tbl, name) == (CHOOSE r \in tbl : r.name = name).created_at

Names(tbl) == { r.name : r \in tbl }

\* ORDER BY created_at ASC
list_passwords_asc(tbl) ==
  LET n == Cardinality(tbl)
  IN { s \in [1..n -> Names(tbl)] :
         /\ \A i, j \in 1..n : i # j => s[i] # s[j]
         /\ \A i, j \in 1..n :
              i < j => created_at(tbl, s[i]) <= created_at(tbl, s[j]) }

\* SELECT name ... ORDER BY created_at DESC: the set of result sequences the
\* statement admits; rows of equal created_at come in either order
list_passwords(tbl) ==
  LET n == Cardinality(tbl)
  IN { s \in [1..n -> Names(tbl)] :
         /\ \A i, j \in 1..n : i # j => s[i] # s[j]
         /\ \A i, j \in 1..n :
              i < j => created_at(tbl, s[i]) >= created_at(tbl, s[j]) }

\* WHERE name=? compared without regard to letter case
delete_password_nocase(tbl, name) ==
  [rows |-> {r \in tbl : lower(r.name) # lower(name)},
   ret  |-> Cardinality({r \in tbl : lower(r.name) = lower(name)}) > 0]

delete_password(tbl, name) ==
  [rows |-> {r \in tbl : r.name # name},
   ret  |-> Cardinality({r \in tbl : r.name = name}) > 0]

\* the count taken after the DELETE
clear_all_passwords_count_after(tbl) ==
  [rows |-> {}, ret |-> 0]

clear_all_passwords(tbl) ==
  [rows |-> {}, ret |-> Cardinality(tbl)]

(***************************************************************************)
(* generate_password.                                                      *)
(***************************************************************************)
punctuation == <<"!","@","#","$","%","^","&","*","(",")","-","_","=","+">>

ascii_letters == ascii_lowercase \o ascii_uppercase

\* the alphabet with eight symbols only
chars_eight_symbols == ascii_letters \o digits \o SubSeq(punctuation, 1, 8)

\* chars = string.ascii_letters + string.digits + "!@#$%^&*()-_=+"
chars == ascii_letters \o digits \o punctuation

\* random.choice(chars): the index drawn at the i-th call, in stream seed
random_choice(seed, i) == ((seed * (i + 25)) % Len(chars)) + 1

\* range(length - 1) in place of range(length)
generate_password_short(length, seed) ==
  [i \in 1..(length - 1) |-> chars[random_choice(seed, i)]]

generate_password(length, seed) ==
  [i \in 1..length |-> chars[random_choice(seed, i)]]

(***************************************************************************)
(* Titles the program emits, the markers it looks for, its keywords.       *)
(***************************************************************************)
T_DeleteOk == <<"U+2705", " ", "U+5220", "U+9664", "U+6210", "U+529F">>
T_DeleteOkPlain == <<"U+5220", "U+9664", "U+6210", "U+529F">>
T_DeleteFail == <<"U+5220", "U+9664", "U+5931", "U+8D25">>
T_ClearOk == <<"U+2705", " ", "U+6E05", "U+7A7A", "U+5B8C", "U+6210">>
T_ClearOkPlain == <<"U+6E05", "U+7A7A", "U+5B8C", "U+6210">>
T_ClearFail == <<"U+6E05", "U+7A7A", "U+5931", "U+8D25">>
T_ClearPrompt == <<"U+26A0", "U+FE0F", " ", "U+786E", "U+8BA4", "U+6E05", "U+7A7A">>
T_ClearPartial == <<"U+26A0", "U+FE0F", " ", "U+6E05", "U+7A7A", "U+90E8", "U+5206", "U+5B8C", "U+6210">>
T_NoRecords == <<"U+65E0", "U+5BC6", "U+7801", "U+8BB0", "U+5F55">>
T_NotFound == <<"U+672A", "U+627E", "U+5230", "U+5BC6", "U+7801">>
T_Typing == <<"U+8F93", "U+5165", "U+4E2D", ".", ".", ".">>
T_DbError == <<"U+6570", "U+636E", "U+5E93", "U+9519", "U+8BEF">>
T_DeleteUsage == <<"U+5220", "U+9664", "U+5BC6", "U+7801">>
T_HelpHeader == <<"U+1F510", " ", "U+5BC6", "U+7801", "U+7BA1", "U+7406", "U+5DE5", "U+5177">>
T_HelpGenerate == <<"U+751F", "U+6210", "U+5BC6", "U+7801">>
T_HelpSave == <<"U+4FDD", "U+5B58", "U+5BC6", "U+7801">>
T_HelpQuery == <<"U+67E5", "U+8BE2", "U+5BC6", "U+7801">>
T_HelpList == <<"U+5217", "U+51FA", "U+5BC6", "U+7801">>
T_HelpClear == <<"U+6E05", "U+7A7A", "U+5BC6", "U+7801">>
T_HelpRegen == <<"U+91CD", "U+65B0", "U+751F", "U+6210">>
T_QuickAccess == <<"U+1F4CB", " ", "U+5FEB", "U+901F", "U+8BBF", "U+95EE">>
T_KeyPrefix == <<"U+1F511", " ">>

M_Lock == <<"U+1F510">>
M_Key == <<"U+1F511">>
M_Clip == <<"U+1F4CB">>
M_Warn == <<"U+26A0", "U+FE0F">>
M_Check == <<"U+2705">>
M_Cross == <<"U+274C">>

S_list == <<"l","i","s","t">>
S_li == <<"l","i">>
S_lis == <<"l","i","s">>
S_del == <<"d","e","l">>
S_regen == <<"r","e","g","e","n">>
S_reg == <<"r","e","g">>
S_rege == <<"r","e","g","e">>
S_clear == <<"c","l","e","a","r">>
S_confirm == <<"c","o","n","f","i","r","m">>
S_clear_confirm == S_clear \o <<" ">> \o S_confirm
S_null == <<"n","u","l","l">>
S_paren_null == <<"(">> \o S_null \o <<")">>
S_gi == <<"g","i">>
S_g == <<"g">>
S_pwd_ == <<"p","w","d","_">>

(***************************************************************************)
(* alfred_output.  An item handed to it is a (name, subtitle) tuple or a   *)
(* mapping with title and subtitle and optionally arg, autocomplete and    *)
(* valid.  A subtitle is kept as the f-string that built it: its template  *)
(* and the values interpolated into it.                                    *)
(***************************************************************************)
Msg(m, n, text) == [msg |-> m, n |-> n, text |-> text]

Tuple(name, subtitle) == [name |-> name, subtitle |-> subtitle]

alfred_item(item) ==
  IF "name" \in DOMAIN item
  THEN [title |-> item.name, subtitle |-> item.subtitle, arg |-> item.name,
        autocomplete |-> item.name, valid |-> TRUE]
  ELSE [title |-> item.title, subtitle |-> item.subtitle,
        arg |-> IF "arg" \in DOMAIN item THEN item.arg ELSE item.title,
        autocomplete |-> IF "autocomplete" \in DOMAIN item
                         THEN item.autocomplete ELSE item.title,
        valid |-> IF "valid" \in DOMAIN item THEN item.valid ELSE TRUE]

\* the envelope printed for a list of items
alfred_output(items) ==
  [items |-> [i \in 1..Len(items) |-> alfred_item(items[i])]]

(***************************************************************************)
(* Command handlers.  A handler yields the table it leaves, the envelopes  *)
(* it prints, the number of store calls it makes (nops), the position      *)
(* among them of the call that writes (writeAt, 0 when none writes) and    *)
(* the exception it raises by itself (err).  Every handler prints after    *)
(* its last store call.                                                    *)
(***************************************************************************)
Done(tbl, out, nops, writeAt) ==
  [rows |-> tbl, out |-> out, nops |-> nops, writeAt |-> writeAt, err |-> "none"]

Raise(tbl, e) ==
  [rows |-> tbl, out |-> <<>>, nops |-> 0, writeAt |-> 0, err |-> e]

\* the subtitle of an entry shown in a list: the secret cut to 20 characters
copy_subtitle(pwd) ==
  IF Len(pwd) > 20 THEN Msg("copy_truncated", 0, SubSeq(pwd, 1, 20))
  ELSE Msg("copy", 0, pwd)

\* the item built for one name in handle_list_command and in the substring
\* branch of handle_smart_search
entry_item(tbl, name) ==
  LET pwd == get_password(tbl, name)
  IN IF truthy(pwd)
     THEN [title |-> name, subtitle |-> copy_subtitle(pwd.val),
           arg |-> pwd.val, autocomplete |-> name]
     ELSE [title |-> name, subtitle |-> Msg("missing", 0, <<>>),
           arg |-> <<>>, valid |-> FALSE, autocomplete |-> name]

not_found_item == Tuple(T_NotFound, Msg("not_found_hint", 0, <<>>))

\* lst is the result of list_passwords()
handle_list_command(tbl, lst) ==
  IF lst # <<>>
  THEN Done(tbl,
            <<alfred_output([i \in 1..Len(lst) |-> entry_item(tbl, lst[i])])>>,
            1 + Len(lst), 0)
  ELSE Done(tbl, <<alfred_output(<<Tuple(T_NoRecords, Msg("no_records_hint", 0, <<>>))>>)>>,
            1, 0)

clear_prompt(current_count) ==
  IF current_count > 0
  THEN alfred_output(<<Tuple(T_ClearPrompt, Msg("confirm_count", current_count, <<>>))>>)
  ELSE alfred_output(<<Tuple(T_ClearPrompt, Msg("confirm_empty", 0, <<>>))>>)

\* == "clear confirm" without .lower()
is_clear_confirm_exact(query) == strip(query) = S_clear_confirm

is_clear_confirm(query) == lower(strip(query)) = S_clear_confirm

handle_clear_command(tbl, lst, query) ==
  IF lower(strip(query)) = S_clear
  THEN Done(tbl, <<clear_prompt(Len(lst))>>, 1, 0)
  ELSE IF is_clear_confirm(query)
  THEN LET c == clear_all_passwords(tbl)
           count == c.ret
           remaining == Cardinality(c.rows)
       IN IF count > 0
          THEN IF remaining = 0
               THEN Done(c.rows,
                         <<alfred_output(<<Tuple(T_ClearOk, Msg("cleared", count, <<>>))>>)>>,
                         2, 1)
               ELSE Done(c.rows,
                         <<alfred_output(<<Tuple(T_ClearPartial, Msg("cleared_partly", count, str(remaining)))>>)>>,
                         2, 1)
          ELSE Done(c.rows,
                    <<alfred_output(<<Tuple(T_ClearOkPlain, Msg("nothing_to_clear", 0, <<>>))>>)>>,
                    1, 1)
  ELSE Done(tbl, <<clear_prompt(Len(lst))>>, 1, 0)

delete_result(tbl, name) ==
  LET d == delete_password(tbl, name)
  IN IF d.ret
     THEN Done(d.rows,
               <<alfred_output(<<[title |-> T_DeleteOk, subtitle |-> Msg("deleted", 0, name),
                                  arg |-> <<>>, valid |-> FALSE]>>)>>, 1, 1)
     ELSE Done(d.rows,
               <<alfred_output(<<[title |-> T_DeleteFail, subtitle |-> Msg("delete_not_found", 0, name),
                                  arg |-> <<>>, valid |-> FALSE]>>)>>, 1, 1)

handle_delete_command(tbl, query_args) ==
  IF Len(query_args) = 1
  THEN Done(tbl,
            <<alfred_output(<<[title |-> T_DeleteUsage, subtitle |-> Msg("delete_usage", 0, <<>>),
                               valid |-> FALSE]>>)>>, 0, 0)
  ELSE delete_result(tbl, query_args[2])

\* the trailing length left in the name
handle_regen_command_length_in_name(tbl, query_args, t, seed) ==
  IF Len(query_args) >= 2
  THEN LET n == Len(query_args)
           has_length == n >= 3 /\ isdigit(query_args[n])
           name == join(SubSeq(query_args, 2, n))
       IN IF has_length /\ ~int_ok(query_args[n])
          THEN Raise(tbl, "ValueError")
          ELSE LET length == IF has_length THEN int(query_args[n]) ELSE 16
                   pwd == generate_password(length, seed)
               IN Done(save_password(tbl, name, pwd, t),
                       <<alfred_output(<<[title |-> name, subtitle |-> Msg("regenerated", 0, pwd),
                                          arg |-> pwd]>>)>>, 1, 1)
  ELSE Done(tbl, <<>>, 0, 0)

\* t is int(time.time()), seed the stream of random draws
handle_regen_command(tbl, query_args, t, seed) ==
  IF Len(query_args) >= 2
  THEN LET n == Len(query_args)
           has_length == n >= 3 /\ isdigit(query_args[n])
           name == IF has_length THEN join(SubSeq(query_args, 2, n - 1))
                   ELSE join(SubSeq(query_args, 2, n))
       IN IF has_length /\ ~int_ok(query_args[n])
          THEN Raise(tbl, "ValueError")
          ELSE LET length == IF has_length THEN int(query_args[n]) ELSE 16
                   pwd == generate_password(length, seed)
               IN Done(save_password(tbl, name, pwd, t),
                       <<alfred_output(<<[title |-> name, subtitle |-> Msg("regenerated", 0, pwd),
                                          arg |-> pwd]>>)>>, 1, 1)
  ELSE Done(tbl, <<>>, 0, 0)

handle_generate_password(tbl, query_args, t, seed) ==
  IF ~int_ok(query_args[1])
  THEN Raise(tbl, "ValueError")
  ELSE LET length == int(query_args[1])
           name == IF Len(query_args) > 1 THEN join(Tail(query_args))
                   ELSE S_pwd_ \o str(t)
           pwd == generate_password(length, seed)
       IN Done(save_password(tbl, name, pwd, t),
               <<alfred_output(<<[title |-> name, subtitle |-> Msg("generated", 0, pwd),
                                  arg |-> pwd]>>)>>, 1, 1)

\* the secret taken from the second token alone
handle_save_password_one_token(tbl, query_args, t) ==
  LET name == query_args[1]
      pwd == query_args[2]
  IN Done(save_password(tbl, name, pwd, t),
          <<alfred_output(<<[title |-> name, subtitle |-> Msg("saved", 0, pwd),
                             arg |-> pwd]>>)>>, 1, 1)

handle_save_password(tbl, query_args, t) ==
  LET name == query_args[1]
      pwd == join(Tail(query_args))
  IN Done(save_password(tbl, name, pwd, t),
          <<alfred_output(<<[title |-> name, subtitle |-> Msg("saved", 0, pwd),
                             arg |-> pwd]>>)>>, 1, 1)

query_result(tbl, name) ==
  LET pwd == get_password(tbl, name)
  IN IF truthy(pwd)
     THEN alfred_output(<<[title |-> name, subtitle |-> Msg("copy", 0, pwd.val),
                           arg |-> pwd.val]>>)
     ELSE alfred_output(<<not_found_item>>)

handle_query_password(tbl, query_args) ==
  Done(tbl, <<query_result(tbl, query_args[1])>>, 1, 0)

\* the first name of lst equal to the query ignoring case, <<>> boxed as None
exact_match(lst, query) ==
  LET hits == { i \in 1..Len(lst) : lower(lst[i]) = lower(query) }
  IN IF hits = {} THEN None
     ELSE Some(lst[CHOOSE i \in hits : \A j \in hits : i <= j])

\* name.lower() in query.lower() in place of query.lower() in name.lower()
select_matching_reversed(lst, query) ==
  SelectSeq(lst, LAMBDA name : contains(lower(query), lower(name)))

RECURSIVE select_matching(_, _)
select_matching(lst, query) ==
  IF lst = <<>> THEN <<>>
  ELSE IF contains(lower(Head(lst)), lower(query))
       THEN <<Head(lst)>> \o select_matching(Tail(lst), query)
       ELSE select_matching(Tail(lst), query)

handle_smart_search(tbl, lst, query) ==
  LET exact == exact_match(lst, query)
  IN IF truthy(exact)
     THEN Done(tbl, <<query_result(tbl, exact.val)>>, 2, 0)
     ELSE LET matching_passwords == select_matching(lst, query)
          IN IF matching_passwords # <<>>
             THEN Done(tbl,
                       <<alfred_output([i \in 1..Len(matching_passwords) |->
                                          entry_item(tbl, matching_passwords[i])])>>,
                       1 + Len(matching_passwords), 0)
             ELSE Done(tbl, <<alfred_output(<<not_found_item>>)>>, 1, 0)

help_entry(title, hint, autocomplete) ==
  [title |-> title, subtitle |-> Msg(hint, 0, <<>>), arg |-> <<>>,
   autocomplete |-> autocomplete, valid |-> FALSE]

recent_item(tbl, name) ==
  LET pwd == get_password(tbl, name)
  IN IF truthy(pwd)
     THEN [title |-> T_KeyPrefix \o name, subtitle |-> copy_subtitle(pwd.val),
           arg |-> pwd.val, autocomplete |-> name]
     ELSE [title |-> T_KeyPrefix \o name, subtitle |-> Msg("missing", 0, <<>>),
           arg |-> <<>>, valid |-> FALSE, autocomplete |-> name]

show_help(tbl, lst) ==
  LET password_count == Len(lst)
      help_items ==
        << [title |-> T_HelpHeader, subtitle |-> Msg("help_count", password_count, <<>>),
            arg |-> <<>>, valid |-> FALSE],
           help_entry(T_HelpGenerate, "help_generate", <<"1","6"," ">>),
           help_entry(T_HelpSave, "help_save", <<"g","i","t","h","u","b"," ">>),
           help_entry(T_HelpQuery, "help_query", <<"g","i","t","h","u","b">>),
           help_entry(T_HelpList, "help_list", S_list),
           help_entry(T_DeleteUsage, "help_delete", S_del \o <<" ">>),
           help_entry(T_HelpClear, "help_clear", S_clear_confirm),
           help_entry(T_HelpRegen, "help_regen", S_regen \o <<" ">>) >>
      recent_passwords == SubSeq(lst, 1, IF Len(lst) < 3 THEN Len(lst) ELSE 3)
  IN IF password_count > 0
     THEN Done(tbl,
               <<alfred_output(
                   help_items
                   \o <<help_entry(T_QuickAccess, "help_quick", S_list)>>
                   \o [i \in 1..Len(recent_passwords) |->
                         recent_item(tbl, recent_passwords[i])])>>,
               2 + Len(recent_passwords), 0)
     ELSE Done(tbl, <<alfred_output(help_items)>>, 1, 0)

typing(hint, text) ==
  <<alfred_output(<<[title |-> T_Typing, subtitle |-> Msg(hint, 0, text),
                     valid |-> FALSE]>>)>>

(***************************************************************************)
(* main.  args is sys.argv[1:].                                            *)
(***************************************************************************)
\* the launcher's sentinels taken as text
normalize_keeps_sentinels(args) ==
  IF Len(args) > 0 /\ args[1] # <<>> THEN strip(args[1]) ELSE <<>>

\* the query main works on: the first argument, stripped, the launcher's
\* sentinels read as the empty string
normalize(args) ==
  IF Len(args) > 0 /\ args[1] # <<>>
  THEN IF args[1] \notin {S_paren_null, S_null, <<>>} THEN strip(args[1]) ELSE <<>>
  ELSE <<>>

\* the failure titles missing from the list
system_messages_success_only ==
  {T_DeleteOk, T_DeleteOkPlain, T_ClearOk, T_ClearOkPlain}

system_messages ==
  {T_DeleteOk, T_DeleteOkPlain, T_DeleteFail, T_ClearOk, T_ClearOkPlain, T_ClearFail}

\* the warning sign missing from the list
all_markers_no_warning == {M_Lock, M_Key, M_Clip, M_Check, M_Cross}

all_markers == {M_Lock, M_Key, M_Clip, M_Warn, M_Check, M_Cross}

help_markers == {M_Lock, M_Key, M_Clip, M_Warn}

has_any(query, markers) == \E m \in markers : contains(query, m)

lowered(query_args) == { lower(query_args[i]) : i \in 1..Len(query_args) }

\* no "li"/"lis" prefixes
is_list_exact(first_arg) == first_arg = S_list

is_list(first_arg) ==
  first_arg = S_list \/ (Len(first_arg) >= 2 /\ first_arg \in {S_li, S_lis})

is_regen(first_arg) ==
  first_arg = S_regen \/ (Len(first_arg) >= 3 /\ first_arg \in {S_reg, S_rege})

\* h, with the name of the handler main called for it
Tag(a, h) ==
  [act |-> a, rows |-> h.rows, out |-> h.out, nops |-> h.nops,
   writeAt |-> h.writeAt, err |-> h.err]

\* the action chosen for a non-empty query that is no echoed message
dispatch(query, query_args, tbl, lst, t, seed) ==
  LET is_special_command ==
        \E cmd \in {S_list, S_clear, S_del, S_regen} : cmd \in lowered(query_args)
      is_number_start == IF Len(query_args) > 0 THEN isdigit(query_args[1]) ELSE FALSE
      first_arg == lower(query_args[1])
  IN IF Len(query) < 2
     THEN Tag("typing", Done(tbl, typing("typing", <<>>), 0, 0))
     ELSE IF Len(query_args) = 1 /\ isdigit(query_args[1])
     THEN Tag("typing", Done(tbl, typing("typing_label", query_args[1]), 0, 0))
     ELSE IF Len(query_args) = 2 /\ isdigit(query_args[1]) /\ Len(query_args[2]) <= 2
     THEN Tag("typing", Done(tbl, typing("typing_label_short", query_args[2]), 0, 0))
     ELSE IF Len(query_args) = 2 /\ isdigit(query_args[1])
             /\ lower(query_args[2]) \in {S_gi, S_g}
     THEN Tag("typing", Done(tbl, typing("typing_label_full", query_args[2]), 0, 0))
     ELSE IF Len(query_args) > 0 /\ is_list(first_arg)
     THEN Tag("list", handle_list_command(tbl, lst))
     ELSE IF Len(query_args) > 0 /\ first_arg = S_del
     THEN Tag("delete", handle_delete_command(tbl, query_args))
     ELSE IF Len(query_args) > 0 /\ is_regen(first_arg)
     THEN Tag("regen", handle_regen_command(tbl, query_args, t, seed))
     ELSE IF Len(query_args) > 0 /\ S_clear \in lowered(query_args)
     THEN Tag("clear", handle_clear_command(tbl, lst, query))
     ELSE IF is_number_start
     THEN Tag("generate", handle_generate_password(tbl, query_args, t, seed))
     ELSE IF Len(query_args) >= 2 /\ ~is_number_start /\ ~has_any(query, all_markers)
     THEN Tag("save", handle_save_password(tbl, query_args, t))
     ELSE IF ~is_special_command /\ ~is_number_start /\ Len(query_args) = 1
     THEN IF has_any(query, help_markers)
          THEN Tag("help", show_help(tbl, lst))
          ELSE Tag("search", handle_smart_search(tbl, lst, query))
     ELSE IF Len(query_args) > 0
     THEN IF has_any(query, all_markers)
          THEN Tag("help", show_help(tbl, lst))
          ELSE Tag("query", handle_query_password(tbl, query_args))
     ELSE Tag("help", show_help(tbl, lst))

\* what the part of main after init_db does, no store call failing
handle(args, tbl, lst, t, seed) ==
  LET query == normalize(args)
      query_args == IF query # <<>> THEN split(query) ELSE <<>>
  IN IF query = <<>> \/ isspace(query)
     THEN Tag("help", show_help(tbl, lst))
     ELSE IF strip(query) \in system_messages
             \/ startswith(strip(query), M_Check)
             \/ startswith(strip(query), M_Cross)
     THEN Tag("help", show_help(tbl, lst))
     ELSE dispatch(query, query_args, tbl, lst, t, seed)

db_error == alfred_output(<<Tuple(T_DbError, Msg("init_failed", 0, <<>>))>>)

\* fault: 0 no store call fails, 1 init_db fails, k+1 the k-th store call of
\* the action fails.  Only the failure of init_db is caught; a store call
\* that fails inside a handler ends the process before anything is printed,
\* with the table as the calls before it left it.  h is what the handler
\* does when no store call fails.
run(h, tbl, fault) ==
  IF fault = 1
  THEN [rows |-> tbl, out |-> <<db_error>>, raised |-> "none"]
  ELSE IF fault >= 2 /\ fault - 1 <= h.nops
  THEN [rows |-> IF h.writeAt > 0 /\ h.writeAt < fault - 1 THEN h.rows ELSE tbl,
        out |-> <<>>, raised |-> "StorageError"]
  ELSE [rows |-> h.rows, out |-> h.out, raised |-> h.err]

main(args, tbl, lst, t, seed, fault) ==
  run(handle(args, tbl, lst, t, seed), tbl, fault)

(***************************************************************************)
(* State.                                                                  *)
(***************************************************************************)
VARIABLES
  rows,    \* the passwords table
  now,     \* the last value read from the clock, in seconds
  argv,    \* sys.argv[1:] of the last invocation of main
  fault,   \* the storage fault injected into the last invocation
  out,     \* the envelopes the last invocation printed
  raised,  \* the exception that escaped the last invocation, or "none"
  pc,      \* "idle" between invocations, "exited" when one has just ended
  call,    \* the last direct call of a store function
  ret,     \* what that call returned
  prev     \* the table before the last invocation or call, and the call
           \* made before the last one

vars == <<rows, now, argv, fault, out, raised, pc, call, ret, prev>>

Sp == <<" ">>

W_github == <<"g","i","t","h","u","b">>
W_GitHub == <<"G","i","t","H","u","b">>
W_site == <<"s","i","t","e">>
W_123 == <<"1","2","3">>
W_16 == <<"1","6">>
W_pw == <<"p","w">>
W_pw2 == <<"p","w","2">>
W_my == <<"m","y">>
W_now == <<"n","o","w">>

\* the raw queries main is invoked with
Queries ==
  { <<>>, <<" ", " ">>, S_null, S_g, W_16, W_16 \o Sp \o S_gi,
    S_list, S_del, S_del \o Sp \o W_github,
    S_regen, S_regen \o Sp \o W_github, S_regen \o Sp \o W_github \o Sp \o <<"4">>,
    S_clear, S_clear_confirm, <<"C">> \o Tail(S_clear) \o Sp \o <<"C">> \o Tail(S_confirm),
    S_clear \o Sp \o W_now,
    W_16 \o Sp \o W_github, <<"0">> \o Sp \o W_github, W_16 \o Sp \o W_123, W_123,
    <<"U+00B2">> \o Sp \o W_github,
    W_github \o Sp \o W_my \o <<" ", "\t">> \o W_pw,
    W_GitHub \o Sp \o W_pw2,
    W_github, S_gi,
    T_DeleteOk, T_ClearPrompt }

\* the argument vectors: no argument at all, or one raw query
Argv == {<<>>} \cup { <<q>> : q \in Queries }

NoCall == [op |-> "none", name |-> <<>>, password |-> <<>>]

NoRet == [got |-> None, listed |-> <<>>, deleted |-> FALSE, count |-> 0]

NoPrev == [rows |-> {}, call |-> NoCall]

Init ==
  /\ rows = {}
  /\ now = 0
  /\ argv = <<>>
  /\ fault = 0
  /\ out = <<>>
  /\ raised = "none"
  /\ pc = "idle"
  /\ call = NoCall
  /\ ret = NoRet
  /\ prev = NoPrev

\* the clock read by an invocation: it never runs backwards, and two
\* invocations may fall in the same second
Clock == { t \in now..(now + 1) : t <= MaxTime }

(***************************************************************************)
(* One run of the program.                                                 *)
(***************************************************************************)
\* one invocation of main on an argument vector of pool
InvokeWith(pool) ==
  /\ pc = "idle"
  /\ \E args \in pool, t \in Clock, seed \in 0..MaxSeed :
       \E lst \in list_passwords(rows) :
         LET h == handle(args, rows, lst, t, seed)
         IN \E f \in 0..MaxFaultAt :
              LET r == run(h, rows, f)
              IN /\ rows' = r.rows
                 /\ out' = r.out
                 /\ raised' = r.raised
                 /\ argv' = args
                 /\ fault' = f
                 /\ now' = t
                 /\ pc' = "exited"
                 /\ prev' = [rows |-> rows, call |-> NoCall]
                 /\ UNCHANGED <<call, ret>>

Invoke == InvokeWith(Argv)

\* the process is gone: what is left is the database file and the clock
Exit ==
  /\ pc = "exited"
  /\ pc' = "idle"
  /\ argv' = <<>>
  /\ fault' = 0
  /\ out' = <<>>
  /\ raised' = "none"
  /\ prev' = NoPrev
  /\ UNCHANGED <<rows, now, call, ret>>

Next == Invoke \/ Exit

Spec == Init /\ [][Next]_vars

(***************************************************************************)
(* Runs of the program on labels of several tokens.                        *)
(***************************************************************************)
W_site_4 == W_site \o Sp \o <<"4">>

W_my_site == W_my \o Sp \o W_site

LabelQueries ==
  { W_16 \o Sp \o W_my_site,
    S_regen \o Sp \o W_my_site,
    S_regen \o Sp \o W_my \o <<"\t", " ">> \o W_site_4,
    S_regen \o Sp \o W_github,
    W_my_site, W_github, W_my,
    S_del \o Sp \o W_my_site,
    S_list, S_clear_confirm }

LabelArgv == { <<q>> : q \in LabelQueries }

LabelInvoke == InvokeWith(LabelArgv)

LabelNext == LabelInvoke \/ Exit

LabelSpec == Init /\ [][LabelNext]_vars

(***************************************************************************)
(* Runs of the program on keywords, near-keywords, empty input and the     *)
(* titles the program itself prints.                                       *)
(***************************************************************************)
W_x == <<"x">>

Upper(s) == [i \in 1..Len(s) |-> IF s[i] \in Range(ascii_lowercase)
                                  THEN ascii_uppercase[IndexOf(ascii_lowercase, s[i])]
                                  ELSE s[i]]

CommandQueries ==
  { \* no input
    <<>>, <<" ", "\t">>, S_null, S_paren_null,
    \* titles printed by the program, and strings opening with its markers
    T_DeleteOk, T_DeleteOkPlain, T_DeleteFail, T_ClearOk, T_ClearOkPlain,
    T_ClearPrompt, T_ClearPartial,
    M_Cross \o Sp \o W_github \o Sp \o W_pw,
    M_Check \o W_github \o Sp \o W_pw,
    \* a marker after the first token
    W_github \o Sp \o M_Key,
    \* keywords followed by anything
    S_list, Upper(S_list) \o Sp \o S_clear_confirm, S_lis \o Sp \o W_github \o Sp \o W_pw, S_li,
    S_del, S_del \o Sp \o S_clear, Upper(S_del) \o Sp \o W_github \o Sp \o W_x,
    S_regen \o Sp \o S_clear, S_reg \o Sp \o W_github \o Sp \o <<"4">>, S_rege,
    \* near-keywords
    <<"l">>, <<"r","e">>, <<"d","e">>, <<"d","e","l","e">>, S_list \o <<"s">>,
    <<"d","e","l","e">> \o Sp \o W_github,
    \* a save and the clear flow
    W_github \o Sp \o W_pw, S_clear, S_clear_confirm }

CommandArgv == {<<>>} \cup { <<q>> : q \in CommandQueries }

CommandInvoke == InvokeWith(CommandArgv)

CommandNext == CommandInvoke \/ Exit

CommandSpec == Init /\ [][CommandNext]_vars

(***************************************************************************)
(* The store functions called directly.                                    *)
(***************************************************************************)
StoreLabels == {W_github, W_GitHub, W_site}

StoreSecrets == {W_pw, W_pw2, <<>>}

Save ==
  \E name \in StoreLabels, password \in StoreSecrets, t \in Clock :
    /\ rows' = save_password(rows, name, password, t)
    /\ now' = t
    /\ call' = [op |-> "save", name |-> name, password |-> password]
    /\ ret' = NoRet
    /\ prev' = [rows |-> rows, call |-> call]
    /\ UNCHANGED <<argv, fault, out, raised, pc>>

Get ==
  \E name \in StoreLabels :
    /\ call' = [op |-> "get", name |-> name, password |-> <<>>]
    /\ ret' = [NoRet EXCEPT !.got = get_password(rows, name)]
    /\ prev' = [rows |-> rows, call |-> call]
    /\ UNCHANGED <<rows, now, argv, fault, out, raised, pc>>

List ==
  \E lst \in list_passwords(rows) :
    /\ call' = [op |-> "list", name |-> <<>>, password |-> <<>>]
    /\ ret' = [NoRet EXCEPT !.listed = lst]
    /\ prev' = [rows |-> rows, call |-> call]
    /\ UNCHANGED <<rows, now, argv, fault, out, raised, pc>>

Delete ==
  \E name \in StoreLabels :
    LET d == delete_password(rows, name)
    IN /\ rows' = d.rows
       /\ call' = [op |-> "delete", name |-> name, password |-> <<>>]
       /\ ret' = [NoRet EXCEPT !.deleted = d.ret]
       /\ prev' = [rows |-> rows, call |-> call]
       /\ UNCHANGED <<now, argv, fault, out, raised, pc>>

Clear ==
  LET c == clear_all_passwords(rows)
  IN /\ rows' = c.rows
     /\ call' = [op |-> "clear", name |-> <<>>, password |-> <<>>]
     /\ ret' = [NoRet EXCEPT !.count = c.ret]
     /\ prev' = [rows |-> rows, call |-> call]
     /\ UNCHANGED <<now, argv, fault, out, raised, pc>>

StoreNext == Save \/ Get \/ List \/ Delete \/ Clear

StoreSpec == Init /\ [][StoreNext]_vars

TypeOK ==
  /\ now \in 0..MaxTime
  /\ fault \in 0..MaxFaultAt
  /\ raised \in {"none", "ValueError", "StorageError"}
  /\ \A r \in rows : r.created_at \in 0..now
  /\ \A r1, r2 \in rows : r1.name = r2.name => r1 = r2
  /\ Len(out) <= 1
  /\ pc \in {"idle", "exited"}

(***************************************************************************)
(* Direct calls of generate_password.                                      *)
(***************************************************************************)
\* the greatest length asked for
MaxLength == 16

\* the streams of random draws: one per residue of the alphabet's length
GenSeeds == 0..(Len(chars) - 1)

\* generate_password(length); ret.count records the length asked for
Generate ==
  \E length \in 0..MaxLength, seed \in GenSeeds :
    /\ call' = [op |-> "generate_password", name |-> <<>>, password |-> <<>>]
    /\ ret' = [NoRet EXCEPT !.count = length,
                            !.got = Some(generate_password(length, seed))]
    /\ prev' = [rows |-> rows, call |-> call]
    /\ UNCHANGED <<rows, now, argv, fault, out, raised, pc>>

GenNext == Generate

GenSpec == Init /\ [][GenNext]_vars

(***************************************************************************)
(* Properties of the store functions (checked under StoreSpec).            *)
(***************************************************************************)
\* how many times name occurs in the sequence lst
Count(lst, name) == Cardinality({ i \in 1..Len(lst) : lst[i] = name })

\* the rows of tbl under other names than name
Others(tbl, name) == { r \in tbl : r.name # name }

\* C1: save(L, S) immediately followed by get(L) returns exactly S, from any
\* table and for any label and secret, the empty secret included.
C1_RoundTrip ==
  (call.op = "get" /\ prev.call.op = "save" /\ prev.call.name = call.name)
    => ret.got = Some(prev.call.password)

\* a get right after a save that overwrote the label's earlier, different
\* secret, with another entry in the table
C1_Witness ==
  /\ call.op = "get" /\ prev.call.op = "save" /\ prev.call.name = call.name
  /\ Cardinality(rows) >= 2
  /\ ret.got = Some(W_pw2)

\* C2: save(L, S1) then save(L, S2): get(L) is S2, list() holds L exactly
\* once, and every other label keeps its row.
C2_Overwrite ==
  (call.op = "save" /\ prev.call.op = "save" /\ prev.call.name = call.name)
    => /\ get_password(rows, call.name) = Some(call.password)
       /\ Cardinality({ r \in rows : r.name = call.name }) = 1
       /\ list_passwords(rows) # {}
       /\ \A lst \in list_passwords(rows) : Count(lst, call.name) = 1
       /\ Others(rows, call.name) = Others(prev.rows, call.name)

\* the second of two saves of one label with different secrets, beside
\* another entry
C2_Witness ==
  /\ call.op = "save" /\ prev.call.op = "save" /\ prev.call.name = call.name
  /\ prev.call.password # call.password
  /\ Others(rows, call.name) # {}

\* C8: delete(L) of an absent label returns false and leaves the table as it
\* was; of a present label it returns true and removes the row of L and no
\* other row.
C8_Delete ==
  call.op = "delete"
    => IF call.name \in Names(prev.rows)
       THEN ret.deleted /\ rows = Others(prev.rows, call.name)
                        /\ call.name \notin Names(rows)
       ELSE ~ret.deleted /\ rows = prev.rows

\* a label deleted from a table that also holds the same label in another
\* letter case
C8_Witness ==
  /\ call.op = "delete" /\ ret.deleted
  /\ call.name = W_github
  /\ W_GitHub \in Names(rows)

\* C9: clear() returns the number of rows present just before it, 0 for an
\* empty table, and list() after it is the empty sequence.
C9_Clear ==
  call.op = "clear"
    => /\ ret.count = Cardinality(prev.rows)
       /\ list_passwords(rows) = {<<>>}

\* a clear of a table of three rows
C9_Witness == call.op = "clear" /\ ret.count = 3 /\ rows = {}

\* lst holds every name of tbl exactly once
EveryLabelOnce(tbl, lst) ==
  /\ Len(lst) = Cardinality(tbl)
  /\ \A name \in Names(tbl) : Count(lst, name) = 1

\* lst is in descending order of created_at
Descending(tbl, lst) ==
  \A i, j \in 1..Len(lst) :
    i < j => created_at(tbl, lst[i]) >= created_at(tbl, lst[j])

\* C10 as stated: list() returns every label once, in descending created_at
\* order, and the label saved last comes first.
C10_Original ==
  call.op = "list"
    => /\ EveryLabelOnce(rows, ret.listed)
       /\ Descending(rows, ret.listed)
       /\ prev.call.op = "save" => ret.listed[1] = prev.call.name

\* C10 amended: list() returns every label once, in descending created_at
\* order; a save stamps its label with the current second, which no other
\* row exceeds, and the label saved last comes first when every other row
\* carries an earlier second.
C10_ListOrder ==
  /\ call.op = "save"
       => /\ created_at(rows, call.name) = now
          /\ \A r \in rows : r.created_at <= now
  /\ call.op = "list"
       => /\ EveryLabelOnce(rows, ret.listed)
          /\ Descending(rows, ret.listed)
          /\ (/\ prev.call.op = "save"
              /\ \A r \in Others(rows, prev.call.name) :
                   r.created_at < created_at(rows, prev.call.name))
               => ret.listed[1] = prev.call.name

\* a list right after an overwrite that moved an older label in front of a
\* row of an earlier second
C10_Witness ==
  /\ call.op = "list" /\ prev.call.op = "save"
  /\ Len(ret.listed) >= 2
  /\ ret.listed[1] = prev.call.name
  /\ created_at(rows, ret.listed[2]) < created_at(rows, ret.listed[1])

(***************************************************************************)
(* Properties of the dispatcher (checked under Spec, in the state an       *)
(* invocation leaves when it exits).                                       *)
(***************************************************************************)
\* the query of the invocation that has just ended, and its tokens
Query == normalize(argv)

Tokens == split(Query)

\* some result of list_passwords
AnyList(tbl) == CHOOSE lst \in list_passwords(tbl) : TRUE

\* what main did on the table it found, no store call failing; the handler
\* called and the number of store calls depend neither on the order of
\* rows of one second nor on the random draws
Handled == handle(argv, prev.rows, AnyList(prev.rows), now, 0)

Routed == Handled.act

\* an invocation has ended in which no store call failed
Ran == pc = "exited" /\ fault = 0

\* an invocation has ended in which a store call of the action failed
StoreCallFailed == pc = "exited" /\ fault >= 2 /\ fault - 1 <= Handled.nops

\* one envelope was printed, holding exactly one item
OneItem(o) == Len(o) = 1 /\ Len(o[1].items) = 1

\* C3 as stated: every invocation in which no store call fails prints
\* exactly one envelope with at least one item, and raises nothing.
C3_OneEnvelope ==
  Ran => /\ raised = "none"
         /\ Len(out) = 1
         /\ Len(out[1].items) >= 1

\* C5 as stated: when a store call of the action fails, the invocation still
\* prints one envelope holding an error item and no exception escapes main.
C5_FaultReported ==
  StoreCallFailed => /\ raised = "none"
                     /\ OneItem(out)

\* C4 as stated: in the clear flow the table is emptied if and only if the
\* query is the literal phrase "clear confirm"; any other query of the flow
\* prints the confirmation prompt, with the count of entries, and leaves the
\* table unchanged.
C4_Original ==
  (Ran /\ Routed = "clear")
    => IF Query = S_clear_confirm
       THEN rows = {}
       ELSE /\ rows = prev.rows
            /\ OneItem(out)
            /\ out[1].items[1].title = T_ClearPrompt
            /\ out[1].items[1].subtitle.n = Cardinality(prev.rows)

\* C4 amended: in the clear flow the table is emptied if and only if the
\* query, letter case ignored, is the phrase "clear confirm", and the one
\* item printed then reports the number of rows removed; any other query of
\* the flow leaves the table unchanged and prints one confirmation prompt,
\* which names the number k of entries when k > 0 and says there are none
\* when k = 0.
C4_ClearFlow ==
  (Ran /\ Routed = "clear")
    => LET k == Cardinality(prev.rows)
       IN IF lower(Query) = S_clear_confirm
          THEN /\ rows = {}
               /\ raised = "none"
               /\ OneItem(out)
               /\ out[1].items[1].title = (IF k > 0 THEN T_ClearOk ELSE T_ClearOkPlain)
               /\ out[1].items[1].subtitle.n = k
          ELSE /\ rows = prev.rows
               /\ raised = "none"
               /\ OneItem(out)
               /\ out[1].items[1].title = T_ClearPrompt
               /\ out[1].items[1].subtitle =
                    (IF k > 0 THEN Msg("confirm_count", k, <<>>)
                     ELSE Msg("confirm_empty", 0, <<>>))

\* "Clear Confirm", capitalised, has emptied a table of two entries
C4_Witness ==
  /\ Ran /\ Routed = "clear"
  /\ Query # S_clear_confirm /\ lower(Query) = S_clear_confirm
  /\ Cardinality(prev.rows) = 2
  /\ rows = {}

\* the keywords of the dispatcher and their recognised prefixes
Keywords == {S_list, S_li, S_lis, S_del, S_regen, S_reg, S_rege, S_clear}

\* a query "n L": a decimal length and one token of at least 3 characters
\* that is no keyword
GenerateShape ==
  /\ Len(Tokens) = 2
  /\ int_ok(Tokens[1])
  /\ Len(Tokens[2]) >= 3
  /\ lower(Tokens[2]) \notin Keywords

\* what the query "n L" is to have done: one item titled L whose payload is
\* an n-character string over the generator's alphabet, stored under L
Generated ==
  /\ raised = "none"
  /\ OneItem(out)
  /\ out[1].items[1].title = Tokens[2]
  /\ Len(out[1].items[1].arg) = int(Tokens[1])
  /\ Range(out[1].items[1].arg) \subseteq Range(chars)
  /\ get_password(rows, Tokens[2]) = Some(out[1].items[1].arg)
  /\ Others(rows, Tokens[2]) = Others(prev.rows, Tokens[2])

\* the result r of an invocation holds an item whose payload is secret
HasPayload(r, secret) ==
  /\ r.raised = "none"
  /\ Len(r.out) = 1
  /\ \E i \in 1..Len(r.out[1].items) : r.out[1].items[i].arg = secret

\* C6 as stated: "n L" stores L with a fresh n-character secret and prints
\* one item titled L carrying it; the query L, submitted next, returns an
\* item carrying that secret, whatever else the table holds.
C6_Original ==
  (Ran /\ GenerateShape)
    => /\ Generated
       /\ \A lst \in list_passwords(rows) :
            HasPayload(main(<<Tokens[2]>>, rows, lst, now, 0, 0),
                       out[1].items[1].arg)

\* a token main answers without searching for it: a number, a launcher
\* sentinel, an echoed message or a token holding a marker
NotSearchable(label) ==
  \/ isdigit(label)
  \/ label \in {S_null, S_paren_null}
  \/ label \in system_messages
  \/ startswith(label, M_Check) \/ startswith(label, M_Cross)
  \/ has_any(label, help_markers)

\* in lst, label comes before every other name equal to it ignoring case
FirstOfItsCase(lst, label) ==
  \A i, j \in 1..Len(lst) :
    (lst[i] = label /\ lst[j] # label /\ lower(lst[j]) = lower(label)) => i < j

\* C6 amended: for a decimal n >= 1 and a searchable single token L of at
\* least 3 characters that is no keyword, "n L" stores L with a fresh
\* n-character secret and prints one item titled L carrying it; the query L,
\* submitted next, returns exactly one item, titled L and carrying that
\* secret, whenever list() puts L before every other label equal to L
\* ignoring case - as it does when those labels were saved in an earlier
\* second.
C6_GenerateThenQuery ==
  (Ran /\ GenerateShape /\ int(Tokens[1]) >= 1 /\ ~NotSearchable(Tokens[2]))
    => /\ Generated
       /\ \A lst \in list_passwords(rows) :
            FirstOfItsCase(lst, Tokens[2])
              => LET r == main(<<Tokens[2]>>, rows, lst, now, 0, 0)
                 IN /\ HasPayload(r, out[1].items[1].arg)
                    /\ OneItem(r.out)
                    /\ r.out[1].items[1].title = Tokens[2]
                    /\ r.rows = rows
       /\ (\A r \in Others(rows, Tokens[2]) :
             lower(r.name) = lower(Tokens[2]) => r.created_at < now)
            => \A lst \in list_passwords(rows) : FirstOfItsCase(lst, Tokens[2])

\* "16 github" has stored a 16-character secret beside an older "GitHub"
C6_Witness ==
  /\ Ran /\ GenerateShape
  /\ Tokens = <<W_16, W_github>>
  /\ Len(out[1].items[1].arg) = 16
  /\ W_GitHub \in Names(prev.rows)
  /\ created_at(rows, W_GitHub) < created_at(rows, W_github)

\* a query of two or more tokens, the first no number and no list, del or
\* regen keyword, with no clear token and no marker
SaveShape ==
  /\ Len(Tokens) >= 2
  /\ ~isdigit(Tokens[1])
  /\ lower(Tokens[1]) \notin (Keywords \ {S_clear})
  /\ S_clear \notin lowered(Tokens)
  /\ ~has_any(Query, all_markers)

\* C7: such a query is saved: the table maps the first token to the other
\* tokens joined by single spaces, no other row changes, and the one item
\* printed has the label as title and the secret as payload.
C7_Save ==
  (Ran /\ SaveShape)
    => LET secret == join(Tail(Tokens))
       IN /\ Routed = "save"
          /\ raised = "none"
          /\ get_password(rows, Tokens[1]) = Some(secret)
          /\ created_at(rows, Tokens[1]) = now
          /\ Others(rows, Tokens[1]) = Others(prev.rows, Tokens[1])
          /\ OneItem(out)
          /\ out[1].items[1].title = Tokens[1]
          /\ out[1].items[1].arg = secret

\* "github my <space><tab>pw" has overwritten github with the secret "my pw"
C7_Witness ==
  /\ Ran /\ SaveShape
  /\ Len(Tokens) = 3
  /\ W_github \in Names(prev.rows)
  /\ get_password(rows, W_github) = Some(<<"m", "y", " ", "p", "w">>)
  /\ out[1].items[1].arg = <<"m", "y", " ", "p", "w">>

(***************************************************************************)
(* Smart search.                                                           *)
(***************************************************************************)
\* the first command-line argument as the launcher passed it
Raw == IF argv = <<>> THEN <<>> ELSE argv[1]

\* the stored labels equal to q ignoring case
EqualIgnoringCase(tbl, q) == { n \in Names(tbl) : lower(n) = lower(q) }

\* the stored labels holding q as a substring ignoring case
Containing(tbl, q) == { n \in Names(tbl) : contains(lower(n), lower(q)) }

\* the envelope printed holds one item per label of labels, titled with the
\* label and carrying its secret, and no other item
ItemPerLabel(tbl, labels) ==
  /\ Len(out) = 1
  /\ Len(out[1].items) = Cardinality(labels)
  /\ \A n \in labels :
       \E i \in 1..Len(out[1].items) :
         /\ out[1].items[i].title = n
         /\ out[1].items[i].arg = get_password(tbl, n).val

\* the one item printed is the not-found item
NotFound == OneItem(out) /\ out[1].items[1] = alfred_item(not_found_item)

\* C11 as stated: a query of one token that is no number and no keyword is
\* answered by one item carrying the secret of a label equal to it ignoring
\* case, if there is one; otherwise by one item per label containing it
\* ignoring case; by the not-found item if there is none; the table is
\* unchanged.
C11_Original ==
  (Ran /\ Len(split(Raw)) = 1 /\ ~isdigit(split(Raw)[1])
       /\ lower(split(Raw)[1]) \notin Keywords)
    => LET q == split(Raw)[1]
       IN /\ rows = prev.rows
          /\ raised = "none"
          /\ IF EqualIgnoringCase(prev.rows, q) # {}
             THEN \E n \in EqualIgnoringCase(prev.rows, q) : ItemPerLabel(prev.rows, {n})
             ELSE IF Containing(prev.rows, q) # {}
             THEN ItemPerLabel(prev.rows, Containing(prev.rows, q))
             ELSE NotFound

\* a query main hands to handle_smart_search: one token of two or more
\* characters, no number, no keyword, no sentinel, no echoed message, free
\* of the markers of help items
SearchShape ==
  /\ Len(Tokens) = 1
  /\ Len(Query) >= 2
  /\ lower(Tokens[1]) \notin Keywords
  /\ ~NotSearchable(Tokens[1])

\* C11 amended: such a query is answered, the table unchanged, by exactly
\* one item for the first label of list() equal to it ignoring case, if
\* there is one - carrying that entry's secret, or the not-found item when
\* that secret is empty; otherwise by one item per label containing it
\* ignoring case, each carrying the label's secret; by the not-found item if
\* there is none.
C11_SmartSearch ==
  (Ran /\ SearchShape)
    => /\ Routed = "search"
       /\ rows = prev.rows
       /\ raised = "none"
       /\ IF EqualIgnoringCase(prev.rows, Query) # {}
          THEN \E lst \in list_passwords(prev.rows) :
                 LET n == exact_match(lst, Query).val
                 IN IF get_password(prev.rows, n).val # <<>>
                    THEN ItemPerLabel(prev.rows, {n})
                    ELSE NotFound
          ELSE IF Containing(prev.rows, Query) # {}
          THEN ItemPerLabel(prev.rows, Containing(prev.rows, Query))
          ELSE NotFound

\* "gi" has been answered with the two labels holding it, github and GitHub
C11_Witness ==
  /\ Ran /\ SearchShape
  /\ Query = S_gi
  /\ Containing(prev.rows, Query) = {W_github, W_GitHub}
  /\ Len(out[1].items) = 2

(***************************************************************************)
(* Empty input (checked under CommandSpec).                                *)
(***************************************************************************)
\* no argument, an empty or whitespace-only one, or a launcher sentinel
EmptyInput ==
  \/ argv = <<>>
  \/ Raw = <<>>
  \/ isspace(Raw)
  \/ Raw \in {S_null, S_paren_null}

\* item is the quick-access item of a stored label
IsEntryItem(tbl, item) ==
  \E n \in Names(tbl) : item.title = T_KeyPrefix \o n

\* the envelope printed is the help: the header naming the number of
\* entries first, at least the eight items of the guide, every item that
\* is no entry of the table not actionable, and at most three entries, each
\* carrying its secret
HelpShown ==
  /\ raised = "none"
  /\ Len(out) = 1
  /\ Len(out[1].items) >= 8
  /\ out[1].items[1].title = T_HelpHeader
  /\ out[1].items[1].subtitle.n = Cardinality(prev.rows)
  /\ \A i \in 1..Len(out[1].items) :
       LET item == out[1].items[i]
       IN IF IsEntryItem(prev.rows, item)
          THEN \E n \in Names(prev.rows) :
                 /\ item.title = T_KeyPrefix \o n
                 /\ item.arg = get_password(prev.rows, n).val
          ELSE item.valid = FALSE
  /\ Cardinality({ i \in 1..Len(out[1].items) : IsEntryItem(prev.rows, out[1].items[i]) })
       = (IF Cardinality(prev.rows) < 3 THEN Cardinality(prev.rows) ELSE 3)

\* C12: on no input, on an empty or whitespace-only query and on the
\* sentinels "(null)" and "null", main shows the help - at least one item,
\* every item that is no entry not actionable - and leaves the table
\* unchanged.
C12_EmptyShowsHelp ==
  (Ran /\ EmptyInput)
    => /\ Routed = "help"
       /\ rows = prev.rows
       /\ HelpShown

\* the sentinel "(null)" has been answered with the help on a table of two
\* entries: eight guide items, the quick-access header and the two entries
C12_Witness ==
  /\ Ran /\ EmptyInput
  /\ Raw = S_paren_null
  /\ Cardinality(prev.rows) = 2
  /\ Len(out[1].items) = 11
  /\ out[1].items[11].valid

(***************************************************************************)
(* The generator (checked under GenSpec).                                  *)
(***************************************************************************)
\* generate_password has returned a string of the length asked for, drawn
\* from the alphabet
DrawnFromAlphabet ==
  /\ Len(ret.got.val) = ret.count
  /\ Range(ret.got.val) \subseteq Range(chars)

\* C13 as stated: generate(n) returns exactly n characters, all of the
\* fixed alphabet, and the alphabet has exactly 70 characters.
C13_Original ==
  call.op = "generate_password"
    => /\ DrawnFromAlphabet
       /\ Cardinality(Range(chars)) = 70

\* C13 amended: generate(n) returns exactly n characters, all of the fixed
\* alphabet, and the alphabet has exactly 76 distinct characters: 26 lower
\* case letters, 26 upper case letters, 10 digits and the 14 symbols
\* !@#$%^&*()-_=+.
C13_Generate ==
  call.op = "generate_password"
    => /\ DrawnFromAlphabet
       /\ Len(chars) = 76
       /\ Cardinality(Range(chars)) = 76
       /\ Cardinality(Range(ascii_lowercase)) = 26
       /\ Cardinality(Range(ascii_uppercase)) = 26
       /\ Cardinality(Range(digits)) = 10
       /\ Cardinality(Range(punctuation)) = 14
       /\ Range(chars) = Range(ascii_lowercase) \cup Range(ascii_uppercase)
                           \cup Range(digits) \cup Range(punctuation)

\* a secret of the default length holding "+", the last of the 14 symbols
C13_Witness ==
  /\ call.op = "generate_password"
  /\ ret.count = 16
  /\ Len(ret.got.val) = 16
  /\ "+" \in Range(ret.got.val)

(***************************************************************************)
(* Uniqueness of labels (checked under Spec).                              *)
(***************************************************************************)
\* C14 as stated: in every reachable state the table holds at most one row
\* per label, labels differing only in letter case counting as one label.
C14_Original ==
  \A r1, r2 \in rows : lower(r1.name) = lower(r2.name) => r1 = r2

\* C14 amended: in every reachable state the table holds at most one row
\* per label compared exactly, letter case included; a save under a label
\* differing from a stored one in letter case only leaves the stored row
\* as it was.
C14_UniqueLabel ==
  /\ \A r1, r2 \in rows : r1.name = r2.name => r1 = r2
  /\ (Ran /\ Routed \in {"save", "generate", "regen"} /\ rows # prev.rows)
       => \E r \in rows :
            /\ r.created_at = now
            /\ Others(rows, r.name) = Others(prev.rows, r.name)

\* "github my pw" saved while "GitHub" was stored: two rows, one per spelling
C14_Witness ==
  /\ Ran /\ Routed = "save"
  /\ Tokens[1] = W_github
  /\ W_GitHub \in Names(prev.rows)
  /\ Names(rows) = {W_GitHub, W_github}
  /\ get_password(rows, W_GitHub) = get_password(prev.rows, W_GitHub)
  /\ Cardinality(rows) = 2

(***************************************************************************)
(* The last rule of main (checked under CommandSpec).                      *)
(***************************************************************************)
\* q holds one of the six reserved markers
HasMarker(q) ==
  \E m \in {M_Lock, M_Key, M_Clip, M_Warn, M_Check, M_Cross} : contains(q, m)

\* q is a message main takes as echoed: one of its six titles, or a text
\* opening with the check mark or the cross
Echoed(q) ==
  \/ q \in {T_DeleteOk, T_DeleteOkPlain, T_DeleteFail, T_ClearOk, T_ClearOkPlain, T_ClearFail}
  \/ startswith(q, M_Check)
  \/ startswith(q, M_Cross)

\* the query meets none of the conditions main tests before its last rule:
\* not empty, not echoed, not still being typed, no keyword first, no clear
\* token, no number first, not a save, not a search
FallbackShape ==
  /\ Query # <<>>
  /\ ~Echoed(Query)
  /\ Len(Query) >= 2
  /\ ~(Len(Tokens) = 1 /\ isdigit(Tokens[1]))
  /\ ~(Len(Tokens) = 2 /\ isdigit(Tokens[1])
         /\ (Len(Tokens[2]) <= 2 \/ lower(Tokens[2]) \in {S_gi, S_g}))
  /\ lower(Tokens[1]) \notin (Keywords \ {S_clear})
  /\ S_clear \notin lowered(Tokens)
  /\ ~isdigit(Tokens[1])
  /\ ~(Len(Tokens) >= 2 /\ ~HasMarker(Query))
  /\ ~(Len(Tokens) = 1 /\ lowered(Tokens) \cap {S_list, S_clear, S_del, S_regen} = {})

\* C15 as stated: such a query is answered by a direct query under its
\* first token: one item carrying the secret stored under that token, or the
\* not-found item when nothing is stored under it.
C15_Original ==
  (Ran /\ FallbackShape)
    => LET pwd == get_password(prev.rows, Tokens[1])
       IN /\ rows = prev.rows
          /\ IF truthy(pwd) THEN ItemPerLabel(prev.rows, {Tokens[1]}) ELSE NotFound

\* C15 amended: such a query has two or more tokens and holds a reserved
\* marker, and main answers it with the help, the table unchanged; no query
\* at all is answered by the direct query under its first token.
C15_Fallback ==
  /\ (Ran /\ FallbackShape)
       => /\ Len(Tokens) >= 2
          /\ HasMarker(Query)
          /\ Routed = "help"
          /\ rows = prev.rows
          /\ HelpShown
  /\ pc = "exited" => Routed # "query"

\* "github <key>" has been answered with the help while github was stored
C15_Witness ==
  /\ Ran /\ FallbackShape
  /\ Tokens = <<W_github, M_Key>>
  /\ W_github \in Names(prev.rows)
  /\ out[1].items[1].title = T_HelpHeader

(***************************************************************************)
(* Regenerate (checked under LabelSpec).                                   *)
(***************************************************************************)
\* the last token of the query
LastToken == Tokens[Len(Tokens)]

\* "regen L n": the keyword, a label of one or more tokens, a decimal number
RegenWithLength ==
  /\ Len(Tokens) >= 3
  /\ lower(Tokens[1]) \in {S_regen, S_reg, S_rege}
  /\ int_ok(LastToken)

\* "regen L": the keyword and a label of one or more tokens, the last of
\* which is no number
RegenPlain ==
  /\ Len(Tokens) >= 2
  /\ lower(Tokens[1]) \in {S_regen, S_reg, S_rege}
  /\ ~isdigit(LastToken)

\* the table holds exactly one row for L, written now, whose secret has
\* length characters of the alphabet and is the payload of the one item
\* printed, titled L; every other row is as it was
Regenerated(L, length) ==
  /\ Routed = "regen"
  /\ raised = "none"
  /\ Cardinality({ r \in rows : r.name = L }) = 1
  /\ created_at(rows, L) = now
  /\ Len(get_password(rows, L).val) = length
  /\ \E seed \in 0..MaxSeed : get_password(rows, L).val = generate_password(length, seed)
  /\ OneItem(out)
  /\ out[1].items[1].title = L
  /\ out[1].items[1].arg = get_password(rows, L).val
  /\ Others(rows, L) = Others(prev.rows, L)

First == lower(Tokens[1])

\* the envelope printed lists the table: one item per entry carrying its
\* secret, or the no-records item
ListShown ==
  /\ raised = "none"
  /\ IF prev.rows = {}
     THEN OneItem(out) /\ out[1].items[1].title = T_NoRecords
     ELSE ItemPerLabel(prev.rows, Names(prev.rows))

\* the second token, spelled as typed, was deleted if stored, and the one
\* item printed says which; "del" alone prints its usage
DeleteRan ==
  /\ raised = "none"
  /\ OneItem(out)
  /\ IF Len(Tokens) = 1
     THEN rows = prev.rows /\ out[1].items[1].title = T_DeleteUsage
     ELSE /\ rows = Others(prev.rows, Tokens[2])
          /\ out[1].items[1].title =
               (IF Tokens[2] \in Names(prev.rows) THEN T_DeleteOk ELSE T_DeleteFail)
          /\ out[1].items[1].subtitle.text = Tokens[2]

\* the label after the keyword was given a secret now; "regen" alone
\* changes nothing
RegenRan ==
  IF Len(Tokens) = 1 THEN rows = prev.rows
  ELSE /\ raised = "none"
       /\ OneItem(out)
       /\ created_at(rows, out[1].items[1].title) = now
       /\ get_password(rows, out[1].items[1].title) = Some(out[1].items[1].arg)
       /\ Others(rows, out[1].items[1].title) = Others(prev.rows, out[1].items[1].title)

\* C17: a first token that is, ignoring case, list, li or lis runs the
\* list action; del the delete action; regen, reg or rege the regenerate
\* action - whatever the other tokens are, a clear token, a number and a
\* saveable pair included; any other first token runs none of the three.
C17_KeywordPriority ==
  (Ran /\ Tokens # <<>> /\ ~Echoed(Query))
    => /\ First \in {S_list, S_li, S_lis}
            => (Routed = "list" /\ rows = prev.rows /\ ListShown)
       /\ First = S_del
            => (Routed = "delete" /\ DeleteRan)
       /\ First \in {S_regen, S_reg, S_rege}
            => (Routed = "regen" /\ RegenRan)
       /\ First \notin {S_list, S_li, S_lis, S_del, S_regen, S_reg, S_rege}
            => Routed \notin {"list", "delete", "regen"}

\* "del clear" has deleted the entry labelled clear and left github stored
C17_Witness ==
  /\ Ran /\ Tokens = <<S_del, S_clear>>
  /\ S_clear \in Names(prev.rows)
  /\ rows = Others(prev.rows, S_clear)
  /\ W_github \in Names(rows)
  /\ out[1].items[1].title = T_DeleteOk

(***************************************************************************)
(* Echoed banners (checked under CommandSpec).                             *)
(***************************************************************************)
\* the titles of the banners named: delete success and failure, clear
\* complete, the clear confirmation prompt, the partial-clear warning
Banners ==
  {T_DeleteOk, T_DeleteFail, T_ClearOk, T_ClearOkPlain, T_ClearPrompt, T_ClearPartial}

\* the query is one of these titles, or opens with the check mark or the
\* cross
BannerEchoed ==
  \/ Query \in Banners
  \/ startswith(Query, M_Check)
  \/ startswith(Query, M_Cross)

\* C18: a query that is a banner title of the program, or that opens with
\* the check mark or the cross, is answered with the help and leaves the
\* table unchanged; in particular a banner of several tokens is not saved.
C18_BannerShowsHelp ==
  (Ran /\ BannerEchoed)
    => /\ Routed = "help"
       /\ rows = prev.rows
       /\ HelpShown

\* the two-token clear confirmation prompt, echoed on a table of two
\* entries, has been answered with the help
C18_Witness ==
  /\ Ran /\ BannerEchoed
  /\ Query = T_ClearPrompt
  /\ Len(Tokens) = 2
  /\ Cardinality(rows) = 2
  /\ out[1].items[1].title = T_HelpHeader

(***************************************************************************)
(* Which invocations write (checked under Spec, store faults included).    *)
(***************************************************************************)
\* the invocation ran the confirmed clear
ClearConfirmed == Routed = "clear" /\ lower(Query) = S_clear_confirm

\* the invocation ran the delete of a label the table held
DeletePresent ==
  Routed = "delete" /\ Len(Tokens) >= 2 /\ Tokens[2] \in Names(prev.rows)

\* C19: an invocation that shows the help, the still-typing placeholder,
\* the list, a search or query result, the clear prompt or the usage of
\* "del" leaves the table exactly as it was; the table changes only in a
\* save, a generate, a regenerate, the delete of a stored label and the
\* confirmed clear.
C19_OnlyWritesChange ==
  pc = "exited"
    => /\ Routed \in {"help", "typing", "list", "search", "query"} => rows = prev.rows
       /\ (Routed = "clear" /\ ~ClearConfirmed) => rows = prev.rows
       /\ (Routed = "delete" /\ ~DeletePresent) => rows = prev.rows
       /\ rows # prev.rows
            => \/ Routed \in {"save", "generate", "regen"}
               \/ DeletePresent
               \/ ClearConfirmed

\* "del github" has removed github from a table of two entries
C19_Witness ==
  /\ Ran /\ DeletePresent
  /\ Cardinality(prev.rows) = 2
  /\ Cardinality(rows) = 1
  /\ rows \subseteq prev.rows

(***************************************************************************)
(* Reading a label back (checked under LabelSpec).                         *)
(***************************************************************************)
\* a generate or regenerate action has stored a secret; the label is the
\* title of the one item it printed
StoredByGenerator ==
  /\ Ran /\ Routed \in {"generate", "regen"}
  /\ raised = "none"
  /\ OneItem(out)
  /\ get_password(rows, out[1].items[1].title) = Some(out[1].items[1].arg)

\* C20 as stated: the label stored by a generate or regenerate action,
\* submitted as the next query, returns an item carrying the stored secret
\* and leaves the table unchanged.
C20_ReadBack ==
  StoredByGenerator
    => \A lst \in list_passwords(rows) :
         LET r == main(<<out[1].items[1].title>>, rows, lst, now, 0, 0)
         IN /\ HasPayload(r, out[1].items[1].arg)
            /\ r.rows = rows

====
